---- MODULE Spec2Model ----
(***************************************************************************)
(* The dispatch engine of backend/app/agent: the coordinator               *)
(* (agents/coordinator.py), the six specialists (agents/*.py) as far as    *)
(* they touch the conversation state, and the graph that drives them       *)
(* (main.py).                                                              *)
(*                                                                         *)
(* Text.  A query is the set of the vocabulary words it holds; the words   *)
(* are separated by text that holds no keyword, so "kw in query.lower()"   *)
(* is: some word of the query, lowercased, has kw as a substring.  A       *)
(* response is a sequence of chunks of ChunkWidth characters each, so      *)
(* response[:30] is its first two chunks; a failure phrase never straddles *)
(* two chunks.  None is the empty tuple, a present value x is <<x>>.       *)
(***************************************************************************)
EXTENDS Integers, Sequences, FiniteSets, TLC

\* ----------------------------------------------------------------------
\* Bounds of the model
\* ----------------------------------------------------------------------

\* most words of the vocabulary in one query
MaxWords == 3

\* most entries of the agent_path of a state a caller hands to the graph
MaxInitPath == 3

\* most words in the query of a state a caller hands to the graph
MaxInvokeWords == 1

\* most words in the query of a state whose agent_outputs was filled before
\* the graph ran
MaxReentryWords == 1

\* most entries of the agent_path handed to generate_final_response
MaxSynthPath == 3

\* most words in the query handed to generate_final_response
MaxSynthWords == 2

\* the words of a query handed to the keyword classifier
MaxKeywordWords == 2

\* ----------------------------------------------------------------------
\* Program constants
\* ----------------------------------------------------------------------

RecursionLimit == 10

LoopCap == 6

PrefixChars == 30

ChunkWidth == 15

END == "__end__"

None == << >>

Some(x) == << x >>

Specialists ==
  {"client_profiler", "policy_explainer", "product_suitability",
   "compliance_check", "ilp_insights", "review_upsell"}

AgentNames == Specialists \cup {"coordinator"}

FUNCTION_TYPE_ROUTING ==
  "policy-explainer" :> "policy_explainer" @@
  "needs-assessment" :> "client_profiler" @@
  "product-recommendation" :> "product_suitability" @@
  "compliance-check" :> "compliance_check"

\* the function types a caller may declare: the four of the table and one
\* outside it
FunctionTypes == DOMAIN FUNCTION_TYPE_ROUTING \cup {"ilp-insights"}

\* ----------------------------------------------------------------------
\* Query text
\* ----------------------------------------------------------------------

Vocabulary ==
  {"policy", "Policy", "insurance details", "needs", "recommend", "products",
   "compliance", "regulations", "fund", "ilp", "upsell", "opportunities"}

\* str.lower() on a word
Lower(w) ==
  CASE w = "Policy" -> "policy"
    [] w = "Upgrade" -> "upgrade"
    [] OTHER -> w

\* the keywords of the program that are substrings of a word, for every
\* word as written and as lowercased
SubstringsOf ==
  "assessment" :> {"assessment"} @@
  "compliance" :> {"compliance"} @@
  "coverage" :> {"coverage"} @@
  "determine" :> {"term"} @@
  "financial needs" :> {"financial needs", "needs"} @@
  "fund" :> {"fund"} @@
  "growth" :> {"growth"} @@
  "ilp" :> {"ilp"} @@
  "insurance details" :> {"insurance details", "insurance", "details"} @@
  "investment" :> {"investment"} @@
  "needs" :> {"needs"} @@
  "opportunities" :> {} @@
  "opportunity" :> {"opportunity"} @@
  "performance" :> {"performance"} @@
  "policy" :> {"policy"} @@
  "Policy" :> {} @@
  "product" :> {"product"} @@
  "products" :> {"product", "products"} @@
  "profile" :> {"profile"} @@
  "recommend" :> {"recommend"} @@
  "regulation" :> {"regulation"} @@
  "regulations" :> {"regulation", "regulations"} @@
  "requirements" :> {"requirements"} @@
  "review" :> {"review"} @@
  "rules" :> {"rules"} @@
  "suggestion" :> {"suggestion"} @@
  "suitable" :> {"suitable"} @@
  "term" :> {"term"} @@
  "upgrade" :> {"upgrade"} @@
  "Upgrade" :> {} @@
  "upsell" :> {"upsell"}

\* kw in query.lower()
ContainsLower(query, kw) == \E w \in query : kw \in SubstringsOf[Lower(w)]

\* any(word in query_lower for word in kws)
AnyIn(query, kws) == \E kw \in kws : ContainsLower(query, kw)

Queries == {q \in SUBSET Vocabulary : Cardinality(q) <= MaxWords}

\* ----------------------------------------------------------------------
\* Response text
\* ----------------------------------------------------------------------

LowerChunk ==
  "Analysis of the" :> "analysis of the" @@
  " client needs. " :> " client needs. " @@
  "Item not found." :> "item not found." @@
  "could not find." :> "could not find." @@
  "I COULDN'T FIND" :> "i couldn't find" @@
  " any records.  " :> " any records.  " @@
  "Based on my ana" :> "based on my ana" @@
  "lysis of the cl" :> "lysis of the cl" @@
  "ient's profile." :> "ient's profile." @@
  "Based on the po" :> "based on the po" @@
  "licy documents " :> "licy documents " @@
  "I've analyzed: " :> "i've analyzed: " @@
  " key details.  " :> " key details.  " @@
  "I couldn't find" :> "i couldn't find" @@
  " specific docs." :> " specific docs." @@
  "Based on the cl" :> "based on the cl" @@
  "ient's profile," :> "ient's profile," @@
  " I recommend it" :> " i recommend it" @@
  "After reviewing" :> "after reviewing" @@
  " the relevant c" :> " the relevant c" @@
  "ompliance rules" :> "ompliance rules" @@
  "## Fund Perform" :> "## fund perform" @@
  "ance Analysis  " :> "ance analysis  " @@
  "## Review & Ups" :> "## review & ups" @@
  "ell Opportuniti" :> "ell opportuniti" @@
  "es for client. " :> "es for client. "

\* the phrases of failure that are substrings of a lowercase chunk
PhrasesOf(lc) ==
  CASE lc = "i couldn't find" -> {"couldn't find"}
    [] lc = "item not found." -> {"not found"}
    [] lc = "could not find." -> {"could not find"}
    [] OTHER -> {}

\* phrase in response.lower()
TextContainsLower(text, phrase) ==
  \E i \in 1..Len(text) : phrase \in PhrasesOf(LowerChunk[text[i]])

\* response[:30]
Prefix30(text) ==
  SubSeq(text, 1, IF Len(text) < PrefixChars \div ChunkWidth
                  THEN Len(text) ELSE PrefixChars \div ChunkWidth)

\* the texts the language model may answer with
LLMResponses ==
  { <<"Analysis of the", " client needs. ">>,
    <<"Analysis of the", " client needs. ", "Item not found.">> }

\* ----------------------------------------------------------------------
\* The coordinator's pure functions (agents/coordinator.py)
\* ----------------------------------------------------------------------

\* a classifier whose fifth keyword set lacks "ilp"
route_by_keywords_no_ilp(query) ==
  IF AnyIn(query, {"policy", "coverage", "insurance details", "term"})
    THEN "policy_explainer"
  ELSE IF AnyIn(query, {"needs", "profile", "assessment", "financial needs"})
    THEN "client_profiler"
  ELSE IF AnyIn(query, {"recommend", "product", "suitable", "suggestion"})
    THEN "product_suitability"
  ELSE IF AnyIn(query, {"compliance", "regulation", "rules", "requirements"})
    THEN "compliance_check"
  ELSE IF AnyIn(query, {"investment", "fund", "performance", "growth"})
    THEN "ilp_insights"
  ELSE IF AnyIn(query, {"review", "upsell", "opportunity", "upgrade"})
    THEN "review_upsell"
  ELSE "client_profiler"

\* a classifier without a default: it ends the run when no keyword matches
route_by_keywords_no_default(query) ==
  IF AnyIn(query, {"policy", "coverage", "insurance details", "term"})
    THEN "policy_explainer"
  ELSE IF AnyIn(query, {"needs", "profile", "assessment", "financial needs"})
    THEN "client_profiler"
  ELSE IF AnyIn(query, {"recommend", "product", "suitable", "suggestion"})
    THEN "product_suitability"
  ELSE IF AnyIn(query, {"compliance", "regulation", "rules", "requirements"})
    THEN "compliance_check"
  ELSE IF AnyIn(query, {"investment", "fund", "performance", "ilp", "growth"})
    THEN "ilp_insights"
  ELSE IF AnyIn(query, {"review", "upsell", "opportunity", "upgrade"})
    THEN "review_upsell"
  ELSE "END"

\* coordinator.py 207-230
route_by_keywords(query) ==
  IF AnyIn(query, {"policy", "coverage", "insurance details", "term"})
    THEN "policy_explainer"
  ELSE IF AnyIn(query, {"needs", "profile", "assessment", "financial needs"})
    THEN "client_profiler"
  ELSE IF AnyIn(query, {"recommend", "product", "suitable", "suggestion"})
    THEN "product_suitability"
  ELSE IF AnyIn(query, {"compliance", "regulation", "rules", "requirements"})
    THEN "compliance_check"
  ELSE IF AnyIn(query, {"investment", "fund", "performance", "ilp", "growth"})
    THEN "ilp_insights"
  ELSE IF AnyIn(query, {"review", "upsell", "opportunity", "upgrade"})
    THEN "review_upsell"
  ELSE "client_profiler"

\* the content of the last human message, "" (no word) when there is none
RECURSIVE LastHumanFrom(_, _)
LastHumanFrom(msgs, i) ==
  IF i = 0 THEN {}
  ELSE IF msgs[i].role = "human" THEN msgs[i].content
  ELSE LastHumanFrom(msgs, i - 1)

current_query(msgs) == LastHumanFrom(msgs, Len(msgs))

\* [a for a in agent_path if a != "coordinator"]
NonCoordinator(path) == SelectSeq(path, LAMBDA a : a # "coordinator")

visited_agents(path) ==
  {path[i] : i \in {j \in 1..Len(path) : path[j] # "coordinator"}}

\* the last non-coordinator entry of the path, None when there is none
last_agent(path) ==
  IF NonCoordinator(path) = << >> THEN None
  ELSE Some(NonCoordinator(path)[Len(NonCoordinator(path))])

\* a cap that counts the specialists' entries only half as far
CapReached_early(path) == Len(path) >= LoopCap - 2

\* a cap that is one entry late
CapReached_late(path) == Len(path) >= LoopCap + 1

\* if len(agent_path) >= 6
CapReached(path) == Len(path) >= LoopCap

\* Python truthiness of an optional string: None and "" are false
Truthy(opt) == opt # None /\ opt[1] # ""

\* lines 65-69: the hint of the last specialist, None when it left none
suggested_next(path, outputs) ==
  IF last_agent(path) # None /\ last_agent(path)[1] \in DOMAIN outputs
    THEN outputs[last_agent(path)[1]].suggested_next_agent
    ELSE None

\* routing that follows a hint without asking whether it was visited
MidRoute_revisit(query, path, outputs) ==
  IF Truthy(suggested_next(path, outputs))
    THEN [next_agent |-> suggested_next(path, outputs)[1],
          reasoning |-> "suggestion"]
  ELSE IF route_by_keywords(query) \notin visited_agents(path)
    THEN [next_agent |-> route_by_keywords(query),
          reasoning |-> "keywords_reroute"]
  ELSE [next_agent |-> "END", reasoning |-> "exhausted"]

\* routing that asks the keyword classifier before the hint
MidRoute_keywords_first(query, path, outputs) ==
  IF route_by_keywords(query) \notin visited_agents(path)
    THEN [next_agent |-> route_by_keywords(query),
          reasoning |-> "keywords_reroute"]
  ELSE IF Truthy(suggested_next(path, outputs))
          /\ suggested_next(path, outputs)[1] \notin visited_agents(path)
    THEN [next_agent |-> suggested_next(path, outputs)[1],
          reasoning |-> "suggestion"]
  ELSE [next_agent |-> "END", reasoning |-> "exhausted"]

\* lines 71-86: routing in the middle of a conversation
MidRoute(query, path, outputs) ==
  IF Truthy(suggested_next(path, outputs))
     /\ suggested_next(path, outputs)[1] \notin visited_agents(path)
    THEN [next_agent |-> suggested_next(path, outputs)[1],
          reasoning |-> "suggestion"]
  ELSE IF route_by_keywords(query) \notin visited_agents(path)
    THEN [next_agent |-> route_by_keywords(query),
          reasoning |-> "keywords_reroute"]
  ELSE [next_agent |-> "END", reasoning |-> "exhausted"]

\* a first decision that asks the keyword classifier whatever the function
\* type
ColdRoute_keywords(ftype, query) ==
  [next_agent |-> route_by_keywords(query), reasoning |-> "keywords_initial"]

\* lines 52-60: the first routing decision
ColdRoute(ftype, query) ==
  IF ftype \in DOMAIN FUNCTION_TYPE_ROUTING
    THEN [next_agent |-> FUNCTION_TYPE_ROUTING[ftype],
          reasoning |-> "function_type"]
    ELSE [next_agent |-> route_by_keywords(query),
          reasoning |-> "keywords_initial"]

\* lines 46-86: the routing decision, first matching rule wins
Route(ftype, query, path, outputs) ==
  IF CapReached(path)
    THEN [next_agent |-> "END", reasoning |-> "cap"]
  ELSE IF path = << >>
    THEN ColdRoute(ftype, query)
  ELSE MidRoute(query, path, outputs)

\* a synthesizer that always takes the last specialist of the path
find_most_relevant_agent_last(msgs, path) ==
  IF NonCoordinator(path) = << >> THEN None
  ELSE Some(NonCoordinator(path)[Len(NonCoordinator(path))])

\* a synthesizer without the default to the last specialist
find_most_relevant_agent_no_default(msgs, path) ==
  LET q == current_query(msgs)
      used == visited_agents(path)
  IN  IF AnyIn(q, {"fund", "investment", "performance", "growth"})
         /\ "ilp_insights" \in used
        THEN Some("ilp_insights")
      ELSE IF AnyIn(q, {"upsell", "opportunity", "review"})
              /\ "review_upsell" \in used
        THEN Some("review_upsell")
      ELSE IF AnyIn(q, {"compliance", "regulation", "rules"})
              /\ "compliance_check" \in used
        THEN Some("compliance_check")
      ELSE IF AnyIn(q, {"recommend", "product", "suitable"})
              /\ "product_suitability" \in used
        THEN Some("product_suitability")
      ELSE IF AnyIn(q, {"policy", "insurance", "coverage"})
              /\ "policy_explainer" \in used
        THEN Some("policy_explainer")
      ELSE None

find_most_relevant_agent(msgs, path) ==
  LET q == current_query(msgs)
      p == NonCoordinator(path)
      used == visited_agents(path)
  IN  IF p = << >> THEN None
      ELSE IF AnyIn(q, {"fund", "investment", "performance", "growth"})
              /\ "ilp_insights" \in used
        THEN Some("ilp_insights")
      ELSE IF AnyIn(q, {"upsell", "opportunity", "review"})
              /\ "review_upsell" \in used
        THEN Some("review_upsell")
      ELSE IF AnyIn(q, {"compliance", "regulation", "rules"})
              /\ "compliance_check" \in used
        THEN Some("compliance_check")
      ELSE IF AnyIn(q, {"recommend", "product", "suitable"})
              /\ "product_suitability" \in used
        THEN Some("product_suitability")
      ELSE IF AnyIn(q, {"policy", "insurance", "coverage"})
              /\ "policy_explainer" \in used
        THEN Some("policy_explainer")
      ELSE Some(p[Len(p)])

Placeholder == <<"I don't have specific information about that.">>

GenericMessage ==
  <<"I've analyzed your query but couldn't find specific information to address it. Could you provide more details?">>

\* agent in agent_outputs and "response" in agent_outputs[agent]
HasResponse(outputs, a) ==
  a \in DOMAIN outputs /\ outputs[a].response # None

IsFailure(text) ==
  TextContainsLower(text, "couldn't find")
    \/ TextContainsLower(text, "not found")

\* lines 134-154: the loop over the specialists of the path; acc holds
\* final_response, used_responses and included_agents
RECURSIVE Combine(_, _, _, _)
Combine(p, i, outputs, acc) ==
  IF i > Len(p) THEN acc
  ELSE
    LET a == p[i]
        r == outputs[a].response[1]
    IN  IF a \in acc.included \/ ~HasResponse(outputs, a)
          THEN Combine(p, i + 1, outputs, acc)
        ELSE IF Prefix30(r) \in acc.used
          THEN Combine(p, i + 1, outputs, acc)
        ELSE IF IsFailure(r)
          THEN Combine(p, i + 1, outputs,
                       [acc EXCEPT !.used = @ \cup {Prefix30(r)}])
        ELSE Combine(p, i + 1, outputs,
                     [final |-> IF acc.final # << >>
                                  THEN acc.final \o <<"\n\n">> \o r
                                  ELSE r,
                      used |-> acc.used \cup {Prefix30(r)},
                      included |-> acc.included \cup {a}])

\* lines 123-166: the fallback that combines the outputs
CombineOutputs(path, outputs) ==
  LET p == NonCoordinator(path)
      combined ==
        Combine(p, 1, outputs,
                [final |-> << >>, used |-> {}, included |-> {}]).final
      withLast ==
        IF combined = << >> /\ p # << >> /\ HasResponse(outputs, p[Len(p)])
          THEN outputs[p[Len(p)]].response[1]
          ELSE combined
  IN  IF withLast = << >> THEN GenericMessage ELSE withLast

\* a synthesizer that, without a most relevant specialist, answers with a
\* response found in agent_outputs
generate_final_response_any_output(msgs, path, outputs) ==
  LET relevant == find_most_relevant_agent(msgs, path)
      answered == {a \in DOMAIN outputs \cap Specialists :
                     outputs[a].response # None}
  IN  IF relevant # None /\ relevant[1] \in DOMAIN outputs
        THEN IF outputs[relevant[1]].response # None
               THEN outputs[relevant[1]].response[1]
               ELSE Placeholder
      ELSE IF answered # {}
        THEN outputs[CHOOSE a \in answered : TRUE].response[1]
      ELSE CombineOutputs(path, outputs)

generate_final_response(msgs, path, outputs) ==
  LET relevant == find_most_relevant_agent(msgs, path)
  IN  IF relevant # None /\ relevant[1] \in DOMAIN outputs
        THEN IF outputs[relevant[1]].response # None
               THEN outputs[relevant[1]].response[1]
               ELSE Placeholder
        ELSE CombineOutputs(path, outputs)

\* an edge that falls back to the default specialist instead of ending
decide_next_agent_default(cur, outputs) ==
  IF cur = "coordinator"
    THEN IF outputs["coordinator"].next_agent \in Specialists
           THEN outputs["coordinator"].next_agent
           ELSE "client_profiler"
    ELSE "coordinator"

\* main.py: the conditional edge out of the coordinator
decide_next_agent(cur, outputs) ==
  IF cur = "coordinator"
    THEN IF outputs["coordinator"].next_agent = "END" THEN END
         ELSE IF outputs["coordinator"].next_agent \in Specialists
           THEN outputs["coordinator"].next_agent
         ELSE END
    ELSE "coordinator"

\* ----------------------------------------------------------------------
\* The specialists (agents/*.py), as far as they touch the state
\* ----------------------------------------------------------------------

\* what the call of the language model does: it raises, or it answers
LLMOutcomes ==
  {[raised |-> TRUE, content |-> << >>]}
    \cup {[raised |-> FALSE, content |-> t] : t \in LLMResponses}

\* document_retrieval_tool finds documents or none; only policy_explainer
\* branches on it
DocsChoices(a) == IF a = "policy_explainer" THEN BOOLEAN ELSE {FALSE}

\* the hints the specialists compute from the query when the language
\* model answered
client_profiler_suggested(q) ==
  IF ContainsLower(q, "products") \/ ContainsLower(q, "recommend")
    THEN Some("product_suitability")
  ELSE IF ContainsLower(q, "policy") \/ ContainsLower(q, "coverage")
    THEN Some("policy_explainer")
  ELSE None

policy_explainer_suggested(q, docs) ==
  IF ~docs /\ ContainsLower(q, "fund")
    THEN Some("ilp_insights")
  ELSE IF ContainsLower(q, "recommend") \/ ContainsLower(q, "suitable")
    THEN Some("product_suitability")
  ELSE IF ContainsLower(q, "compliance")
    THEN Some("compliance_check")
  ELSE None

product_suitability_suggested(q) ==
  IF ContainsLower(q, "compliance") \/ ContainsLower(q, "regulation")
    THEN Some("compliance_check")
  ELSE IF ContainsLower(q, "policy") \/ ContainsLower(q, "details")
    THEN Some("policy_explainer")
  ELSE None

compliance_check_suggested(q) ==
  IF ContainsLower(q, "product") \/ ContainsLower(q, "recommend")
    THEN Some("product_suitability")
  ELSE IF ContainsLower(q, "policy") \/ ContainsLower(q, "details")
    THEN Some("policy_explainer")
  ELSE None

ilp_insights_suggested(q) ==
  IF ContainsLower(q, "compliance") \/ ContainsLower(q, "regulations")
    THEN Some("compliance_check")
  ELSE IF ContainsLower(q, "recommend") \/ ContainsLower(q, "suitable")
    THEN Some("product_suitability")
  ELSE None

review_upsell_suggested(q) ==
  IF ContainsLower(q, "product") \/ ContainsLower(q, "recommend")
    THEN Some("product_suitability")
  ELSE IF ContainsLower(q, "compliance")
    THEN Some("compliance_check")
  ELSE None

SuggestedOnSuccess(a, q, docs) ==
  CASE a = "client_profiler" -> client_profiler_suggested(q)
    [] a = "policy_explainer" -> policy_explainer_suggested(q, docs)
    [] a = "product_suitability" -> product_suitability_suggested(q)
    [] a = "compliance_check" -> compliance_check_suggested(q)
    [] a = "ilp_insights" -> ilp_insights_suggested(q)
    [] a = "review_upsell" -> review_upsell_suggested(q)

\* the hint of policy_explainer's fallback output
policy_explainer_fallback_suggested(q) ==
  IF ContainsLower(q, "fund") THEN Some("ilp_insights") ELSE None

\* the hint of the fallback output, written when the language model
\* raised: None but for policy_explainer
SuggestedOnFailure(a, q) ==
  IF a = "policy_explainer"
    THEN policy_explainer_fallback_suggested(q)
    ELSE None

\* the fallback responses, written when the language model raised: their
\* first 30 characters and the failure phrase they hold
client_profiler_fallback ==
  <<"Based on my ana", "lysis of the cl", "ient's profile.">>

policy_explainer_fallback(docs) ==
  IF docs
    THEN <<"Based on the po", "licy documents ", "I've analyzed: ",
           " key details.  ">>
    ELSE <<"Based on the po", "licy documents ", "I've analyzed: ",
           "I couldn't find", " specific docs.">>

product_suitability_fallback ==
  <<"Based on the cl", "ient's profile,", " I recommend it">>

compliance_check_fallback ==
  <<"After reviewing", " the relevant c", "ompliance rules">>

ilp_insights_fallback == <<"## Fund Perform", "ance Analysis  ">>

review_upsell_fallback ==
  <<"## Review & Ups", "ell Opportuniti", "es for client. ">>

FallbackResponse(a, docs) ==
  CASE a = "client_profiler" -> client_profiler_fallback
    [] a = "policy_explainer" -> policy_explainer_fallback(docs)
    [] a = "product_suitability" -> product_suitability_fallback
    [] a = "compliance_check" -> compliance_check_fallback
    [] a = "ilp_insights" -> ilp_insights_fallback
    [] a = "review_upsell" -> review_upsell_fallback

\* the output record a specialist writes
SpecialistOutput(a, q, llm, docs) ==
  IF llm.raised
    THEN [response |-> Some(FallbackResponse(a, docs)),
          suggested_next_agent |-> SuggestedOnFailure(a, q)]
    ELSE [response |-> Some(llm.content),
          suggested_next_agent |-> SuggestedOnSuccess(a, q, docs)]

\* the key a specialist publishes in shared_memory, none for
\* policy_explainer unless it extracted policy details
PublishedKeys(a, llm, docs) ==
  CASE a = "client_profiler" -> {"client_needs"}
    [] a = "policy_explainer" ->
         IF ~llm.raised /\ docs THEN {"policy_details"} ELSE {}
    [] a = "product_suitability" -> {"recommended_products"}
    [] a = "compliance_check" -> {"compliance_issues"}
    [] a = "ilp_insights" -> {"fund_performance"}
    [] a = "review_upsell" -> {"upsell_opportunities"}

\* d[k] = v for a Python dict held as a function
Put(d, k, v) == [x \in DOMAIN d \cup {k} |-> IF x = k THEN v ELSE d[x]]

RECURSIVE PutAll(_, _, _)
PutAll(d, ks, v) ==
  IF ks = {} THEN d
  ELSE LET k == CHOOSE x \in ks : TRUE
       IN  PutAll(Put(d, k, v), ks \ {k}, v)

EmptyDict == [x \in {} |-> None]

\* ----------------------------------------------------------------------
\* State
\* ----------------------------------------------------------------------

VARIABLES
  messages,        \* the turns, [role, content]
  client_id,
  function_type,
  agent_path,
  agent_outputs,   \* name -> output record
  current_agent,
  shared_memory,   \* topic key -> the name of who published it
  final_response,  \* None or Some(text)
  pc,              \* the node the graph runs next, or END
  steps,           \* the supersteps the graph has run
  state_keys,      \* the fields the state dict holds
  result           \* what handle_agent_request returned: None or Some(r)

vars ==
  <<messages, client_id, function_type, agent_path, agent_outputs,
    current_agent, shared_memory, final_response, pc, steps, state_keys,
    result>>

\* main.py 27-35: the fields of AgentState
StateKeys ==
  {"messages", "client_id", "function_type", "agent_path", "agent_outputs",
   "current_agent", "shared_memory", "final_response"}

HumanMessage(q) == [role |-> "human", content |-> q]

AIMessage(t) == [role |-> "ai", content |-> t]

\* main.py 136-148: the state handle_agent_request builds for a query
Init ==
  /\ \E q \in Queries : messages = <<HumanMessage(q)>>
  /\ client_id = "client-1"
  /\ function_type \in FunctionTypes
  /\ agent_path = << >>
  /\ agent_outputs = EmptyDict
  /\ current_agent = "coordinator"
  /\ shared_memory = ("client_info" :> "caller" @@
                      "conversation_history" :> "caller")
  /\ final_response = None
  /\ pc = "coordinator"
  /\ steps = 0
  /\ state_keys = StateKeys
  /\ result = None

\* ----------------------------------------------------------------------
\* Operations
\* ----------------------------------------------------------------------

\* a coordinator that never prepares a final response
Ending_never(next_agent) == FALSE

\* a coordinator that prepares a final response at every decision
Ending_always(next_agent) == TRUE

\* coordinator.py 105: if next_agent == "END"
Ending(next_agent) == next_agent = "END"

\* a coordinator that starts the path anew
new_agent_path_reset(path) == <<"coordinator">>

\* coordinator.py 89: new_agent_path = agent_path + ["coordinator"]
new_agent_path(path) == Append(path, "coordinator")

\* coordinator.py 19-23: the fields the coordinator reads with state[...]
CoordinatorReads ==
  {"messages", "client_id", "function_type", "agent_path", "agent_outputs"}

\* coordinator.py 92-108: the fields the coordinator assigns
CoordinatorWrites(next_agent) ==
  {"current_agent"} \cup
    (IF Ending(next_agent) THEN {"final_response"} ELSE {})

\* The coordinator node and the conditional edge that leaves it.  A field
\* it reads that the state does not hold raises KeyError before anything
\* is written.
coordinator_agent ==
  /\ pc = "coordinator"
  /\ result = None
  /\ steps < RecursionLimit
  /\ IF CoordinatorReads \subseteq state_keys
       THEN LET decision == Route(function_type, current_query(messages),
                                 agent_path, agent_outputs)
                new_path == new_agent_path(agent_path)
                new_outputs ==
                  Put(agent_outputs, "coordinator",
                      [next_agent |-> decision.next_agent,
                       reasoning |-> decision.reasoning,
                       clarification_needed |-> FALSE,
                       clarification_question |-> None])
            IN  /\ agent_path' = new_path
                /\ agent_outputs' = new_outputs
                /\ current_agent' = "coordinator"
                /\ final_response' =
                     IF Ending(decision.next_agent)
                       THEN Some(generate_final_response(messages, new_path,
                                                         new_outputs))
                       ELSE final_response
                /\ state_keys' =
                     state_keys \cup CoordinatorWrites(decision.next_agent)
                /\ pc' = decide_next_agent("coordinator", new_outputs)
       ELSE /\ pc' = "raised"
            /\ UNCHANGED <<agent_path, agent_outputs, current_agent,
                           final_response, state_keys>>
  /\ steps' = steps + 1
  /\ UNCHANGED <<messages, client_id, function_type, shared_memory, result>>

\* a specialist without the re-entry guard
AlreadyRan_never(a, outputs) == FALSE

\* lines 82-84 of client_profiler.py and the like: the re-entry guard
AlreadyRan(a, outputs) == a \in DOMAIN outputs

\* client_profiler.py 250-259 and the like: the fields a specialist
\* assigns; shared_memory is created when the state does not hold it
SpecialistWrites == {"messages", "current_agent", "shared_memory"}

\* a specialist that writes nothing when its language model raised
specialist_agent_no_fallback(a) ==
  /\ pc = a
  /\ result = None
  /\ steps < RecursionLimit
  /\ \E llm \in LLMOutcomes, docs \in DocsChoices(a) :
       IF AlreadyRan(a, agent_outputs) \/ llm.raised
         THEN UNCHANGED <<messages, agent_path, agent_outputs,
                          current_agent, shared_memory, state_keys>>
         ELSE LET out == SpecialistOutput(a, current_query(messages),
                                          llm, docs)
              IN  /\ messages' = Append(messages, AIMessage(out.response[1]))
                  /\ agent_path' = Append(agent_path, a)
                  /\ agent_outputs' = Put(agent_outputs, a, out)
                  /\ current_agent' = a
                  /\ shared_memory' =
                       PutAll(IF "shared_memory" \in state_keys
                                THEN shared_memory ELSE EmptyDict,
                              PublishedKeys(a, llm, docs), a)
                  /\ state_keys' = state_keys \cup SpecialistWrites
  /\ pc' = "coordinator"
  /\ steps' = steps + 1
  /\ UNCHANGED <<client_id, function_type, final_response, result>>

\* A specialist node and the edge back to the coordinator.
specialist_agent(a) ==
  /\ pc = a
  /\ result = None
  /\ steps < RecursionLimit
  /\ \E llm \in LLMOutcomes, docs \in DocsChoices(a) :
       IF AlreadyRan(a, agent_outputs)
         THEN UNCHANGED <<messages, agent_path, agent_outputs,
                          current_agent, shared_memory, state_keys>>
         ELSE LET out == SpecialistOutput(a, current_query(messages),
                                          llm, docs)
              IN  /\ messages' = Append(messages, AIMessage(out.response[1]))
                  /\ agent_path' = Append(agent_path, a)
                  /\ agent_outputs' = Put(agent_outputs, a, out)
                  /\ current_agent' = a
                  /\ shared_memory' =
                       PutAll(IF "shared_memory" \in state_keys
                                THEN shared_memory ELSE EmptyDict,
                              PublishedKeys(a, llm, docs), a)
                  /\ state_keys' = state_keys \cup SpecialistWrites
  /\ pc' = "coordinator"
  /\ steps' = steps + 1
  /\ UNCHANGED <<client_id, function_type, final_response, result>>

ErrorText == <<"I encountered an error processing your request: Recursion limit reached">>

\* the same text for a KeyError, str(e) being the name of the field
KeyErrorText == <<"I encountered an error processing your request: 'field'">>

\* a handler that returns whatever state the graph was in when it stopped
handle_agent_request_return_silent ==
  /\ result = None
  /\ pc \in {END, "raised"} \/ steps >= RecursionLimit
  /\ result' = Some([kind |-> "state",
                     messages |-> messages,
                     agent_path |-> agent_path,
                     agent_outputs |-> agent_outputs,
                     current_agent |-> current_agent,
                     shared_memory |-> shared_memory,
                     final_response |-> final_response,
                     keys |-> state_keys])
  /\ UNCHANGED <<messages, client_id, function_type, agent_path,
                 agent_outputs, current_agent, shared_memory,
                 final_response, pc, steps, state_keys>>

\* main.py 151-174: agent_graph.invoke returns the final state, or raises
\* when RecursionLimit supersteps did not reach END and the handler
\* returns its error record.
handle_agent_request_return ==
  /\ result = None
  /\ pc \in {END, "raised"} \/ steps >= RecursionLimit
  /\ result' =
       IF pc = END
         THEN Some([kind |-> "state",
                    messages |-> messages,
                    agent_path |-> agent_path,
                    agent_outputs |-> agent_outputs,
                    current_agent |-> current_agent,
                    shared_memory |-> shared_memory,
                    final_response |-> final_response,
                    keys |-> state_keys])
         ELSE LET text == IF pc = "raised" THEN KeyErrorText ELSE ErrorText
              IN  Some([kind |-> "error",
                        messages |-> <<messages[1], AIMessage(text)>>,
                        agent_path |-> <<"coordinator">>,
                        agent_outputs |-> ("error" :> text),
                        current_agent |-> "coordinator",
                        shared_memory |-> EmptyDict,
                        final_response |-> Some(text),
                        keys |-> StateKeys])
  /\ UNCHANGED <<messages, client_id, function_type, agent_path,
                 agent_outputs, current_agent, shared_memory,
                 final_response, pc, steps, state_keys>>

Next ==
  \/ coordinator_agent
  \/ \E a \in Specialists : specialist_agent(a)
  \/ handle_agent_request_return

Spec == Init /\ [][Next]_vars

\* fairness: the graph runs the next node whenever there is one, and the
\* handler returns once the graph has stopped
LiveSpec == Spec /\ WF_vars(Next)

\* ----------------------------------------------------------------------
\* The graph invoked on a state its caller built (test_coordinator.py
\* hands agent_graph.invoke a state of its own)
\* ----------------------------------------------------------------------

BoundedSeq(S, n) == UNION {[1..k -> S] : k \in 0..n}

\* the names a caller-built agent_path is drawn from
InvokeNames == {"coordinator", "client_profiler", "policy_explainer"}

InvokeWords == {"policy", "fund", "opportunities"}

InvokeQueries ==
  {q \in SUBSET InvokeWords : Cardinality(q) <= MaxInvokeWords}

\* the hints a caller-built output record may carry: none, two values that
\* name no specialist, and two specialists
InvokeHints ==
  {None, Some("unknown_agent"), Some("coordinator"), Some("ilp_insights"),
   Some("policy_explainer")}

InvokeRecords ==
  {[response |-> Some(<<"Analysis of the", " client needs. ">>),
    suggested_next_agent |-> h] : h \in InvokeHints}

InvokeOutputs ==
  UNION {[S -> InvokeRecords] : S \in SUBSET (InvokeNames \ {"coordinator"})}

InitInvoke ==
  /\ \E q \in InvokeQueries : messages = <<HumanMessage(q)>>
  /\ client_id = "client-1"
  /\ function_type \in FunctionTypes
  /\ agent_path \in BoundedSeq(InvokeNames, MaxInitPath)
  /\ agent_outputs \in InvokeOutputs
  /\ current_agent = "coordinator"
  /\ shared_memory = ("client_info" :> "caller" @@
                      "conversation_history" :> "caller")
  /\ final_response = None
  /\ pc = "coordinator"
  /\ steps = 0
  /\ state_keys = StateKeys
  /\ result = None

SpecInvoke == InitInvoke /\ [][Next]_vars

\* ----------------------------------------------------------------------
\* The graph invoked on a state whose agent_outputs already holds records
\* of specialists that are not in agent_path: the coordinator reads
\* visited_agents from agent_path, the specialists read their re-entry
\* guard from agent_outputs
\* ----------------------------------------------------------------------

\* one word for each keyword set of route_by_keywords
ReentryWords ==
  {"policy", "needs", "recommend", "compliance", "fund", "upsell"}

ReentryQueries ==
  {q \in SUBSET ReentryWords : Cardinality(q) <= MaxReentryWords}

ReentryRecord ==
  [response |-> Some(<<"Analysis of the", " client needs. ">>),
   suggested_next_agent |-> None]

ReentryOutputs == {[a \in S |-> ReentryRecord] : S \in SUBSET Specialists}

InitReentry ==
  /\ \E q \in ReentryQueries : messages = <<HumanMessage(q)>>
  /\ client_id = "client-1"
  /\ function_type \in FunctionTypes
  /\ agent_path = << >>
  /\ agent_outputs \in ReentryOutputs
  /\ current_agent = "coordinator"
  /\ shared_memory = ("client_info" :> "caller" @@
                      "conversation_history" :> "caller")
  /\ final_response = None
  /\ pc = "coordinator"
  /\ steps = 0
  /\ state_keys = StateKeys
  /\ result = None

SpecReentry == InitReentry /\ [][Next]_vars

\* ----------------------------------------------------------------------
\* The graph invoked on a state that lacks one of the fields of AgentState
\* (agent_graph.invoke takes whatever dict its caller built; nothing in
\* main.py or main_i.py looks at the fields before the first node runs)
\* ----------------------------------------------------------------------

\* the fields a caller-built state holds: all of them, or all but one
PartialKeys == {StateKeys} \cup {StateKeys \ {k} : k \in StateKeys}

InitPartial ==
  /\ \E q \in ReentryQueries : messages = <<HumanMessage(q)>>
  /\ client_id = "client-1"
  /\ function_type \in FunctionTypes
  /\ agent_path = << >>
  /\ agent_outputs = EmptyDict
  /\ current_agent = "coordinator"
  /\ shared_memory = EmptyDict
  /\ final_response = None
  /\ pc = "coordinator"
  /\ steps = 0
  /\ state_keys \in PartialKeys
  /\ result = None

SpecPartial == InitPartial /\ [][Next]_vars

\* ----------------------------------------------------------------------
\* Requests whose function type is outside FUNCTION_TYPE_ROUTING, so that
\* the first decision is route_by_keywords(current_query), on queries made
\* of the classifier's own keywords
\* ----------------------------------------------------------------------

\* every keyword of route_by_keywords as a word, one with a capital
\* letter, one inside a longer word, and a word that holds no keyword
KeywordWords ==
  {"policy", "coverage", "insurance details", "term",
   "needs", "profile", "assessment", "financial needs",
   "recommend", "product", "suitable", "suggestion",
   "compliance", "regulation", "rules", "requirements",
   "investment", "fund", "performance", "ilp", "growth",
   "review", "upsell", "opportunity", "upgrade",
   "Upgrade", "determine", "opportunities"}

\* the subsets of S of at most n elements
RECURSIVE SubsetsUpTo(_, _)
SubsetsUpTo(S, n) ==
  IF n = 0 THEN {{}}
  ELSE LET smaller == SubsetsUpTo(S, n - 1)
       IN  smaller \cup {T \cup {x} : T \in smaller, x \in S}

KeywordQueries == SubsetsUpTo(KeywordWords, MaxKeywordWords)

InitKeywords ==
  /\ \E q \in KeywordQueries : messages = <<HumanMessage(q)>>
  /\ client_id = "client-1"
  /\ function_type = "ilp-insights"
  /\ agent_path = << >>
  /\ agent_outputs = EmptyDict
  /\ current_agent = "coordinator"
  /\ shared_memory = ("client_info" :> "caller" @@
                      "conversation_history" :> "caller")
  /\ final_response = None
  /\ pc = "coordinator"
  /\ steps = 0
  /\ state_keys = StateKeys
  /\ result = None

SpecKeywords == InitKeywords /\ [][Next]_vars

\* ----------------------------------------------------------------------
\* generate_final_response applied to a state of any shape
\* ----------------------------------------------------------------------

\* coordinator.py 107-108: state["final_response"] =
\* generate_final_response(state, agent_outputs)
generate_final_response_step ==
  /\ pc = "generate_final_response"
  /\ final_response' =
       Some(generate_final_response(messages, agent_path, agent_outputs))
  /\ pc' = "returned"
  /\ state_keys' = state_keys \cup {"final_response"}
  /\ UNCHANGED <<messages, client_id, function_type, agent_path,
                 agent_outputs, current_agent, shared_memory, steps, result>>

NextSynth == generate_final_response_step

\* words that meet each rule of find_most_relevant_agent, with a capital
\* letter, inside a longer word or not at all
RelevantWords ==
  {"fund", "upsell", "opportunities", "compliance", "products", "Policy",
   "insurance details"}

RelevantQueries ==
  {q \in SUBSET RelevantWords : Cardinality(q) <= MaxSynthWords}

\* every specialist of the path has written its record, each with a text
\* of its own
RelevantOutputs(path) ==
  [a \in visited_agents(path) |->
     [response |-> Some(FallbackResponse(a, TRUE)),
      suggested_next_agent |-> None]]

\* the turns: the query alone, or after an earlier human turn and its
\* answer
RelevantMessages(q) ==
  {<<HumanMessage(q)>>,
   <<HumanMessage({"fund"}), AIMessage(ilp_insights_fallback),
     HumanMessage(q)>>}

InitRelevant ==
  /\ \E q \in RelevantQueries : messages \in RelevantMessages(q)
  /\ client_id = "client-1"
  /\ function_type = "needs-assessment"
  /\ agent_path \in BoundedSeq(AgentNames, MaxSynthPath)
  /\ agent_outputs = RelevantOutputs(agent_path)
  /\ current_agent = "coordinator"
  /\ shared_memory = EmptyDict
  /\ final_response = None
  /\ pc = "generate_final_response"
  /\ steps = 0
  /\ state_keys = StateKeys
  /\ result = None

SpecRelevant == InitRelevant /\ [][NextSynth]_vars

\* the names an agent_path handed to the synthesizer is drawn from
CombineNames ==
  {"coordinator", "client_profiler", "policy_explainer", "ilp_insights"}

\* the specialists that may have written a record
CombineWriters == {"client_profiler", "policy_explainer"}

CombineWords == {"opportunities", "Policy", "fund"}

CombineQueries ==
  {q \in SUBSET CombineWords : Cardinality(q) <= MaxSynthWords}

\* the texts of a record: two plain texts with different beginnings, a
\* text that begins like the first and reports a failure, and two more
\* reports of failure
CombineTexts ==
  { <<"Analysis of the", " client needs. ">>,
    <<"Analysis of the", " client needs. ", "Item not found.">>,
    <<"Based on the po", "licy documents ", " key details.  ">>,
    <<"I COULDN'T FIND", " any records.  ">>,
    <<"could not find.", " any records.  ">> }

\* a record without a response, or with one of the texts
CombineRecords ==
  {[response |-> None, suggested_next_agent |-> None]}
    \cup {[response |-> Some(t), suggested_next_agent |-> None] :
            t \in CombineTexts}

CombineDicts ==
  UNION {[S -> CombineRecords] : S \in SUBSET CombineWriters}

InitCombine ==
  /\ \E q \in CombineQueries : messages = <<HumanMessage(q)>>
  /\ client_id = "client-1"
  /\ function_type = "needs-assessment"
  /\ agent_path \in BoundedSeq(CombineNames, MaxSynthPath)
  /\ agent_outputs \in CombineDicts
  /\ current_agent = "coordinator"
  /\ shared_memory = EmptyDict
  /\ final_response = None
  /\ pc = "generate_final_response"
  /\ steps = 0
  /\ state_keys = StateKeys
  /\ result = None

SpecCombine == InitCombine /\ [][NextSynth]_vars

\* ----------------------------------------------------------------------
\* Properties
\* ----------------------------------------------------------------------

\* the coordinator took the latest step: agent_outputs["coordinator"] is
\* the decision it made on the path without its own last entry
Decided ==
  /\ steps > 0
  /\ current_agent = "coordinator"
  /\ agent_path # << >>
  /\ agent_path[Len(agent_path)] = "coordinator"
  /\ "coordinator" \in DOMAIN agent_outputs

\* the agent_path the coordinator decided on
SeenPath == SubSeq(agent_path, 1, Len(agent_path) - 1)

Decision == agent_outputs["coordinator"].next_agent

Query == current_query(messages)

Terminal == pc = END

BudgetError == result # None /\ result[1].kind = "error"

\* C1: from the fresh state and with step budget 10, agent_path never grows
\* beyond the budget, and a run that has ended has either reached Terminal
\* with a non-null final_response or raised the budget error, never both;
\* a run that has not ended can take a step.
C1_BudgetAndOutcome ==
  /\ Len(agent_path) <= RecursionLimit
  /\ Terminal => final_response # None
  /\ ~(Terminal /\ BudgetError)
  /\ result # None => Terminal \/ BudgetError
  /\ result = None => ENABLED Next

\* a run that went the full length and returned its final state
C1_Witness ==
  /\ result # None
  /\ result[1].kind = "state"
  /\ Len(agent_path) = 7
  /\ final_response # None

\* C2: no specialist occurs twice in agent_path; a decision in the middle
\* of a conversation whose hint names a visited specialist is the keyword
\* classifier's result, or END when that one is visited too.
C2_NoRevisit ==
  /\ \A i, j \in 1..Len(agent_path) :
       i < j /\ agent_path[i] = agent_path[j]
         => agent_path[i] = "coordinator"
  /\ (Decided /\ SeenPath # << >> /\ Len(SeenPath) < LoopCap
      /\ suggested_next(SeenPath, agent_outputs) # None
      /\ suggested_next(SeenPath, agent_outputs)[1]
           \in visited_agents(SeenPath))
       => Decision =
            IF route_by_keywords(Query) \in visited_agents(SeenPath)
              THEN "END" ELSE route_by_keywords(Query)

\* the last hint and the classifier both name visited specialists, and the
\* coordinator ended the run
C2_Witness ==
  /\ Decided
  /\ Len(SeenPath) = 4
  /\ suggested_next(SeenPath, agent_outputs) # None
  /\ suggested_next(SeenPath, agent_outputs)[1] \in visited_agents(SeenPath)
  /\ route_by_keywords(Query) \in visited_agents(SeenPath)
  /\ Decision = "END"
  /\ Terminal

\* C4 as stated: agent_path never holds more than two specialists.
C4_TwoSpecialists == Len(NonCoordinator(agent_path)) <= 2

\* C4, amended: agent_path never holds more than three specialists, and
\* the decision after the third one is END by the cap, whatever the third
\* specialist suggested.
C4_ThreeSpecialists ==
  /\ Len(NonCoordinator(agent_path)) <= 3
  /\ (Decided /\ Len(NonCoordinator(SeenPath)) = 3)
       => /\ Decision = "END"
          /\ agent_outputs["coordinator"].reasoning = "cap"
          /\ Terminal

\* the third specialist suggested an unvisited fourth one and the cap
\* ended the run
C4_Witness ==
  /\ Decided
  /\ Len(NonCoordinator(SeenPath)) = 3
  /\ Truthy(suggested_next(SeenPath, agent_outputs))
  /\ suggested_next(SeenPath, agent_outputs)[1] \in Specialists
  /\ suggested_next(SeenPath, agent_outputs)[1]
       \notin visited_agents(SeenPath)
  /\ Decision = "END"

\* C5: final_response is non-null exactly at Terminal; it is written by the
\* coordinator step that ends the run and never changes once written.
C5_FinalResponse ==
  /\ [](final_response # None <=> Terminal)
  /\ [][/\ final_response # None => final_response' = final_response
        /\ final_response' # final_response
             => pc = "coordinator" /\ pc' = END]_vars

C5_Witness ==
  /\ Terminal
  /\ result # None
  /\ final_response # None
  /\ Len(agent_path) = 3

LastHint == suggested_next(SeenPath, agent_outputs)

C6_UnknownHintAbsent ==
  (Decided /\ SeenPath # << >> /\ Len(SeenPath) < LoopCap
   /\ Truthy(LastHint) /\ LastHint[1] \notin Specialists)
    => /\ Decision =
            IF route_by_keywords(Query) \in visited_agents(SeenPath)
              THEN "END" ELSE route_by_keywords(Query)
       /\ Terminal => Decision = "END"

\* C7: the first decision on an empty agent_path is the specialist the
\* table maps function_type to, whatever the query; for a function_type
\* outside the table it is the keyword classifier's result.
C7_ColdStart ==
  (Decided /\ SeenPath = << >>)
    => /\ function_type = "policy-explainer" => Decision = "policy_explainer"
       /\ function_type = "needs-assessment" => Decision = "client_profiler"
       /\ function_type = "product-recommendation"
            => Decision = "product_suitability"
       /\ function_type = "compliance-check" => Decision = "compliance_check"
       /\ function_type \notin {"policy-explainer", "needs-assessment",
                                "product-recommendation", "compliance-check"}
            => Decision = route_by_keywords(Query)
       /\ pc = Decision

\* the table won against a query whose keywords name another specialist
C7_Witness ==
  /\ Decided
  /\ SeenPath = << >>
  /\ function_type = "needs-assessment"
  /\ route_by_keywords(Query) = "ilp_insights"
  /\ Decision = "client_profiler"

\* the classifier decided for a function type outside the table
C7_WitnessKeywords ==
  /\ Decided
  /\ SeenPath = << >>
  /\ function_type = "ilp-insights"
  /\ Decision = "review_upsell"

\* C8: in the middle of a conversation the decision is the last
\* specialist's hint when it names an unvisited specialist, else the
\* keyword classifier's result when that is unvisited, else END; a
\* policy-explainer run about a fund visits policy_explainer then
\* ilp_insights, a needs-assessment run about upsell visits client_profiler
\* then review_upsell.
C8_MidRouting ==
  /\ (Decided /\ NonCoordinator(SeenPath) # << >> /\ Len(SeenPath) < LoopCap)
       => Decision =
            IF LastHint # None /\ LastHint[1] \in Specialists
               /\ LastHint[1] \notin visited_agents(SeenPath)
              THEN LastHint[1]
            ELSE IF route_by_keywords(Query) \notin visited_agents(SeenPath)
              THEN route_by_keywords(Query)
            ELSE "END"
  /\ (Terminal /\ function_type = "policy-explainer" /\ Query = {"fund"})
       => NonCoordinator(agent_path) = <<"policy_explainer", "ilp_insights">>
  /\ (Terminal /\ function_type = "needs-assessment" /\ Query = {"upsell"})
       => NonCoordinator(agent_path) = <<"client_profiler", "review_upsell">>

\* policy_explainer left no hint, the classifier sent the fund query on
\* to ilp_insights, and the run ended there
C8_Witness ==
  /\ Terminal
  /\ function_type = "policy-explainer"
  /\ Query = {"fund"}
  /\ agent_outputs["policy_explainer"].suggested_next_agent = None
  /\ NonCoordinator(agent_path) = <<"policy_explainer", "ilp_insights">>

\* C9: the run starts at the coordinator; a coordinator step passes control
\* to the specialist named in agent_outputs["coordinator"].next_agent or to
\* Terminal; a specialist step is one invocation of that specialist, which
\* adds its one entry to agent_path, and passes control back to the
\* coordinator, so no specialist runs twice in a row.
C9_Transitions ==
  /\ [](steps = 0 => pc = "coordinator")
  /\ [][/\ (pc = "coordinator" /\ steps' = steps + 1)
             => /\ pc' \in Specialists \cup {END}
                /\ pc' \in Specialists
                     => pc' = agent_outputs'["coordinator"].next_agent
                /\ pc' = END
                     => agent_outputs'["coordinator"].next_agent
                          \notin Specialists
        /\ (pc \in Specialists /\ steps' = steps + 1)
             => /\ pc' = "coordinator"
                /\ agent_path' = Append(agent_path, pc)
                /\ current_agent' = pc]_vars

\* two specialists ran, each after a decision of the coordinator
C9_Witness ==
  /\ steps = 4
  /\ pc = "coordinator"
  /\ Len(agent_path) = 4
  /\ agent_path[1] = "coordinator"
  /\ agent_path[2] \in Specialists
  /\ agent_path[3] = "coordinator"
  /\ agent_path[4] \in Specialists
  /\ current_agent = agent_path[4]

CoordinatorCalls ==
  Len(SelectSeq(agent_path, LAMBDA a : a = "coordinator"))

\* C10: every run reaches Terminal, and the coordinator is called at most
\* four times in a run.
C10_Termination ==
  /\ <>Terminal
  /\ [](CoordinatorCalls <= 4)

\* a run that needed all four decisions
C10_Witness ==
  /\ Terminal
  /\ CoordinatorCalls = 4
  /\ result # None

\* C11: a step of a specialist whose name is already a key of agent_outputs
\* leaves the conversation state as it was: messages, agent_path,
\* agent_outputs, current_agent, shared_memory and final_response (and
\* client_id, function_type) are unchanged.
C11_IdempotentReentry ==
  [][(pc \in Specialists /\ pc \in DOMAIN agent_outputs
      /\ steps' = steps + 1)
       => UNCHANGED <<messages, client_id, function_type, agent_path,
                      agent_outputs, current_agent, shared_memory,
                      final_response>>]_vars

\* the coordinator sent the run to review_upsell, whose record was already
\* in agent_outputs, and the specialist returned without a trace
C11_Witness ==
  /\ steps = 2
  /\ pc = "coordinator"
  /\ agent_path = <<"coordinator">>
  /\ Decision = "review_upsell"
  /\ "review_upsell" \in DOMAIN agent_outputs
  /\ current_agent = "coordinator"
  /\ Len(messages) = 1

\* the rules of the synthesizer in their order of priority
C12_Rules ==
  << [kws |-> {"fund", "investment", "performance", "growth"},
      agent |-> "ilp_insights"],
     [kws |-> {"upsell", "opportunity", "review"}, agent |-> "review_upsell"],
     [kws |-> {"compliance", "regulation", "rules"},
      agent |-> "compliance_check"],
     [kws |-> {"recommend", "product", "suitable"},
      agent |-> "product_suitability"],
     [kws |-> {"policy", "insurance", "coverage"},
      agent |-> "policy_explainer"] >>

\* the rules whose keyword occurs in the query and whose specialist is in
\* the path
C12_Applicable ==
  {i \in 1..Len(C12_Rules) :
     /\ AnyIn(Query, C12_Rules[i].kws)
     /\ C12_Rules[i].agent \in visited_agents(agent_path)}

C12_MostRelevant ==
  IF C12_Applicable # {}
    THEN C12_Rules[CHOOSE i \in C12_Applicable :
                     \A j \in C12_Applicable : i <= j].agent
    ELSE NonCoordinator(agent_path)[Len(NonCoordinator(agent_path))]

\* C12: when generate_final_response has run on a path with a specialist,
\* every specialist of which has written a response, final_response is the
\* response of the specialist of the first applicable rule, or of the last
\* specialist of the path when no rule applies, and nothing else; with
\* path [policy_explainer, ilp_insights] and a query about a fund it is
\* the response of ilp_insights.
C12_SynthesizerPriority ==
  (pc = "returned" /\ NonCoordinator(agent_path) # << >>)
    => /\ final_response = agent_outputs[C12_MostRelevant].response
       /\ (NonCoordinator(agent_path) = <<"policy_explainer", "ilp_insights">>
           /\ "fund" \in Query)
            => final_response = agent_outputs["ilp_insights"].response

\* a query about a fund and a policy, both specialists in the path, the
\* policy explainer last: the answer is the one of ilp_insights
C12_Witness ==
  /\ pc = "returned"
  /\ agent_path = <<"coordinator", "ilp_insights", "policy_explainer">>
  /\ Query = {"fund", "Policy"}
  /\ final_response = Some(ilp_insights_fallback)
  /\ final_response # agent_outputs["policy_explainer"].response

\* no rule applies and the last specialist of the path answers
C12_WitnessDefault ==
  /\ pc = "returned"
  /\ NonCoordinator(agent_path) = <<"policy_explainer", "client_profiler">>
  /\ Query = {"fund", "opportunities"}
  /\ final_response = Some(client_profiler_fallback)

\* two different specialists are in the path and each wrote a response
C13_TwoRan ==
  /\ pc = "returned"
  /\ Len(NonCoordinator(agent_path)) = 2
  /\ NonCoordinator(agent_path)[1] # NonCoordinator(agent_path)[2]
  /\ HasResponse(agent_outputs, NonCoordinator(agent_path)[1])
  /\ HasResponse(agent_outputs, NonCoordinator(agent_path)[2])

\* no keyword of any rule of the synthesizer occurs in the query
C13_NoRuleKeyword ==
  \A i \in 1..Len(C12_Rules) : ~AnyIn(Query, C12_Rules[i].kws)

C13_First == agent_outputs[NonCoordinator(agent_path)[1]].response

C13_Second == agent_outputs[NonCoordinator(agent_path)[2]].response

\* C13 as stated: two specialists ran, the query matches no rule and the
\* second response contains "could not find": final_response is the first
\* specialist's response alone.
C13_OnlyFirst ==
  (C13_TwoRan /\ C13_NoRuleKeyword
   /\ TextContainsLower(C13_Second[1], "could not find"))
    => final_response = C13_First

\* C13, amended: two specialists ran, the query matches no rule and the
\* second response reports a failure ("could not find", "couldn't find" or
\* "not found"): final_response is the second specialist's response as it
\* is, and nothing of the first's.
C13_LastVerbatim ==
  (C13_TwoRan /\ C13_NoRuleKeyword
   /\ (TextContainsLower(C13_Second[1], "could not find")
       \/ IsFailure(C13_Second[1])))
    => final_response = C13_Second

\* the second specialist could not find anything, the first one answered,
\* and the final response is the second one's report
C13_Witness ==
  /\ C13_TwoRan
  /\ C13_NoRuleKeyword
  /\ C13_First = Some(<<"Analysis of the", " client needs. ">>)
  /\ C13_Second = Some(<<"could not find.", " any records.  ">>)
  /\ final_response = C13_Second

\* C14: when generate_final_response has run on a path without a
\* specialist entry (empty, or coordinator entries only), final_response
\* is the fixed generic message, whatever agent_outputs holds.
C14_EmptyPathGeneric ==
  (pc = "returned" /\ NonCoordinator(agent_path) = << >>)
    => final_response = Some(GenericMessage)

\* only coordinator entries in the path, records with responses in
\* agent_outputs, and the generic message as the answer
C14_Witness ==
  /\ pc = "returned"
  /\ agent_path = <<"coordinator", "coordinator">>
  /\ HasResponse(agent_outputs, "client_profiler")
  /\ HasResponse(agent_outputs, "policy_explainer")
  /\ final_response = Some(GenericMessage)

\* no entry in the path at all
C14_WitnessEmpty ==
  /\ pc = "returned"
  /\ agent_path = << >>
  /\ agent_outputs = EmptyDict
  /\ final_response = Some(GenericMessage)

\* the graph has used its budget of supersteps without reaching END
C15_Exhausted == steps >= RecursionLimit /\ pc # END

\* C15: when the budget of 10 supersteps is used up before END, no further
\* node runs and the handler can only return; what it returns is the error
\* record (agent_outputs holds "error", final_response is the error text,
\* nothing of the aborted run's path or synthesis), and no record returned
\* for a run that reached END looks like it.
C15_BudgetExhaustion ==
  /\ [](/\ (C15_Exhausted /\ result = None)
             => ENABLED handle_agent_request_return
        /\ (C15_Exhausted /\ result # None)
             => /\ "error" \in DOMAIN result[1].agent_outputs
                /\ result[1].agent_outputs["error"] = ErrorText
                /\ result[1].final_response = Some(ErrorText)
                /\ result[1].final_response # final_response
                /\ result[1].agent_path = <<"coordinator">>
        /\ (pc = END /\ result # None)
             => /\ "error" \notin DOMAIN result[1].agent_outputs
                /\ result[1].final_response # Some(ErrorText)
                /\ result[1].final_response = final_response
                /\ result[1].agent_path = agent_path)
  /\ [][C15_Exhausted
          => UNCHANGED <<messages, agent_path, agent_outputs, current_agent,
                         shared_memory, final_response, pc, steps>>]_vars

\* a run that went round between the coordinator and a specialist that had
\* nothing to do until the budget was gone, and got the error record
C15_Witness ==
  /\ C15_Exhausted
  /\ result # None
  /\ steps = RecursionLimit
  /\ Len(agent_path) = 5
  /\ final_response = None
  /\ result[1].final_response = Some(ErrorText)

\* the hint in the record of specialist a
C16_Hint(a) == agent_outputs[a].suggested_next_agent

\* the specialists of the path, in order
C16_Ran == NonCoordinator(agent_path)

\* C16: in a run that has ended and whose function_type is in the table,
\* the first specialist is the mapped one; if it suggested another
\* specialist, that one ran second; if the second suggested a specialist
\* not yet visited, that one ran third, and the three are distinct.  For
\* needs-assessment with the hints client_profiler -> policy_explainer ->
\* compliance_check the specialists of the final agent_path are these
\* three in this order.
C16_HintChain ==
  (Terminal /\ function_type \in DOMAIN FUNCTION_TYPE_ROUTING)
    => /\ C16_Ran # << >>
       /\ C16_Ran[1] = FUNCTION_TYPE_ROUTING[function_type]
       /\ (Truthy(C16_Hint(C16_Ran[1])) /\ C16_Hint(C16_Ran[1])[1] # C16_Ran[1])
            => /\ Len(C16_Ran) >= 2
               /\ C16_Ran[2] = C16_Hint(C16_Ran[1])[1]
               /\ (Truthy(C16_Hint(C16_Ran[2]))
                   /\ C16_Hint(C16_Ran[2])[1] \notin {C16_Ran[1], C16_Ran[2]})
                    => /\ Len(C16_Ran) = 3
                       /\ C16_Ran[3] = C16_Hint(C16_Ran[2])[1]
                       /\ Cardinality({C16_Ran[1], C16_Ran[2], C16_Ran[3]}) = 3
       /\ (/\ function_type = "needs-assessment"
           /\ C16_Hint("client_profiler") = Some("policy_explainer")
           /\ "policy_explainer" \in DOMAIN agent_outputs
           /\ C16_Hint("policy_explainer") = Some("compliance_check"))
            => C16_Ran = <<"client_profiler", "policy_explainer",
                           "compliance_check">>

\* the run of the multi-step test: a needs assessment about a policy and
\* compliance went through the three specialists and was returned
C16_Witness ==
  /\ Terminal
  /\ result # None
  /\ function_type = "needs-assessment"
  /\ Query = {"policy", "compliance"}
  /\ C16_Ran = <<"client_profiler", "policy_explainer", "compliance_check">>
  /\ C16_Hint("client_profiler") = Some("policy_explainer")
  /\ C16_Hint("policy_explainer") = Some("compliance_check")
  /\ Len(agent_path) = 7

\* C17: a step of a specialist whose name is not yet a key of agent_outputs
\* appends its name to agent_path once, makes it current_agent, writes a
\* record with a response text under its name and leaves the other
\* records alone, appends that text as one AI turn to messages, and hands
\* control back to the coordinator with no error returned, whether the
\* language model answered or raised.
C17_SpecialistContract ==
  [][(pc \in Specialists /\ pc \notin DOMAIN agent_outputs
      /\ steps' = steps + 1)
       => /\ agent_path' = Append(agent_path, pc)
          /\ current_agent' = pc
          /\ DOMAIN agent_outputs' = DOMAIN agent_outputs \cup {pc}
          /\ \A a \in DOMAIN agent_outputs : agent_outputs'[a] = agent_outputs[a]
          /\ agent_outputs'[pc].response # None
          /\ Len(agent_outputs'[pc].response[1]) > 0
          /\ messages' =
               Append(messages, AIMessage(agent_outputs'[pc].response[1]))
          /\ pc' = "coordinator"
          /\ result' = None
          /\ final_response' = final_response]_vars

\* the language model of ilp_insights raised; the fallback text is its
\* response and its AI turn, and the coordinator is next
C17_Witness ==
  /\ pc = "coordinator"
  /\ current_agent = "ilp_insights"
  /\ agent_path[Len(agent_path)] = "ilp_insights"
  /\ agent_outputs["ilp_insights"].response = Some(ilp_insights_fallback)
  /\ messages[Len(messages)] = AIMessage(ilp_insights_fallback)
  /\ result = None

\* the language model of client_profiler answered
C17_WitnessAnswered ==
  /\ pc = "coordinator"
  /\ current_agent = "client_profiler"
  /\ agent_outputs["client_profiler"].response
       = Some(<<"Analysis of the", " client needs. ">>)
  /\ Len(messages) = 2

\* ----------------------------------------------------------------------
\* C18  Malformed initial state: a state that lacks a required field is
\* rejected with a fatal error at entry.  As long as a field of AgentState
\* is missing, the coordinator has made no decision, no field has been
\* modified, and the only result the caller can get is the error record.
\* ----------------------------------------------------------------------

C18_Malformed == StateKeys \ state_keys # {}

C18_Untouched ==
  /\ agent_path = << >>
  /\ agent_outputs = EmptyDict
  /\ Len(messages) = 1
  /\ final_response = None
  /\ pc # END

C18_MalformedRejected ==
  C18_Malformed =>
    /\ C18_Untouched
    /\ result # None => "error" \in DOMAIN result[1].agent_outputs


\* ----------------------------------------------------------------------
\* C19  Keyword classifier: route_by_keywords returns the specialist of
\* the first keyword set of the listed table, in its order, one of whose
\* keywords is a case-insensitive substring of the query, and
\* client_profiler exactly when the query contains none of the listed
\* keywords.  Stated of the first decision of a request whose function
\* type is outside the routing table, which is
\* route_by_keywords(current_query).
\* ----------------------------------------------------------------------

\* the table as the claim lists it
C19_ListedTable ==
  << [kws |-> {"policy", "coverage", "insurance details", "term"},
      agent |-> "policy_explainer"],
     [kws |-> {"needs", "profile", "assessment", "financial needs"},
      agent |-> "client_profiler"],
     [kws |-> {"recommend", "product", "suitable", "suggestion"},
      agent |-> "product_suitability"],
     [kws |-> {"compliance", "regulation", "rules", "requirements"},
      agent |-> "compliance_check"],
     [kws |-> {"investment", "fund", "performance", "growth"},
      agent |-> "ilp_insights"],
     [kws |-> {"review", "upsell", "opportunity", "upgrade"},
      agent |-> "review_upsell"] >>

\* the same table with "ilp" among the keywords of ilp_insights
C19_TableWithIlp ==
  [C19_ListedTable EXCEPT ![5].kws = @ \cup {"ilp"}]

\* the sets of a table that hold a keyword of the query
C19_Matching(q, table) ==
  {i \in DOMAIN table : \E kw \in table[i].kws : ContainsLower(q, kw)}

\* the specialist of the first matching set, if any set matches
C19_FirstMatch(q, table) ==
  LET hits == C19_Matching(q, table)
  IN  IF hits = {} THEN None
      ELSE Some(table[CHOOSE i \in hits : \A j \in hits : i <= j].agent)

\* the first decision has been made, by the classifier
C19_Classified ==
  /\ Decided
  /\ Len(agent_path) = 1
  /\ function_type \notin DOMAIN FUNCTION_TYPE_ROUTING

C19_Returned == agent_outputs["coordinator"].next_agent

\* the claim as listed: the first matching set decides, and client_profiler
\* is returned when no listed keyword is in the query
C19_ListedClassifier ==
  C19_Classified =>
    LET q == current_query(messages)
        first == C19_FirstMatch(q, C19_ListedTable)
    IN  /\ first # None => C19_Returned = first[1]
        /\ first = None => C19_Returned = "client_profiler"

\* the first matching set of the table with "ilp" decides, and
\* client_profiler is returned when no set matches
C19_KeywordClassifier ==
  C19_Classified =>
    LET q == current_query(messages)
        first == C19_FirstMatch(q, C19_TableWithIlp)
    IN  C19_Returned = IF first = None THEN "client_profiler" ELSE first[1]

\* "ilp" alone decides against a later set
C19_Witness ==
  /\ C19_Classified
  /\ current_query(messages) = {"ilp", "Upgrade"}
  /\ C19_Returned = "ilp_insights"

\* a keyword inside a longer word decides against a later set
C19_WitnessFirst ==
  /\ C19_Classified
  /\ current_query(messages) = {"determine", "growth"}
  /\ C19_Returned = "policy_explainer"

\* no keyword: the default
C19_WitnessDefault ==
  /\ C19_Classified
  /\ current_query(messages) = {"opportunities"}
  /\ C19_Returned = "client_profiler"


\* ----------------------------------------------------------------------
\* C20  agent_path is append-only and well-typed: across every step the
\* previous agent_path is a prefix of the next one, and every element is
\* "coordinator" or one of the six specialist names.
\* ----------------------------------------------------------------------

C20_IsPrefix(p, q) ==
  /\ Len(p) <= Len(q)
  /\ \A i \in 1..Len(p) : q[i] = p[i]

C20_WellTyped == \A i \in 1..Len(agent_path) : agent_path[i] \in AgentNames

C20_AppendOnly ==
  /\ []C20_WellTyped
  /\ [][C20_IsPrefix(agent_path, agent_path')]_vars

\* a finished run in which the coordinator and two different specialists
\* have each appended to the path
C20_Witness ==
  /\ pc = END
  /\ Len(agent_path) >= 5
  /\ agent_path[1] = "coordinator"
  /\ agent_path[2] \in Specialists
  /\ agent_path[4] \in Specialists \ {agent_path[2]}


\* ----------------------------------------------------------------------
\* C21  Coordinator side effects and frame: every call of
\* coordinator_agent, the terminating one included, appends exactly one
\* "coordinator" entry to agent_path and overwrites
\* agent_outputs["coordinator"] with next_agent, reasoning and
\* clarification_needed = False; it leaves messages, client_id,
\* function_type, shared_memory and every specialist's entry of
\* agent_outputs unchanged, invokes no specialist, and writes
\* final_response only when next_agent is END.
\* ----------------------------------------------------------------------

\* this step is a call of the coordinator that returned
C21_CoordinatorCall ==
  /\ pc = "coordinator"
  /\ steps' = steps + 1
  /\ pc' # "raised"

C21_CoordinatorFrame ==
  [][C21_CoordinatorCall =>
       /\ agent_path' = Append(agent_path, "coordinator")
       /\ DOMAIN agent_outputs' = DOMAIN agent_outputs \cup {"coordinator"}
       /\ {"next_agent", "reasoning", "clarification_needed"}
            \subseteq DOMAIN agent_outputs'["coordinator"]
       /\ agent_outputs'["coordinator"].clarification_needed = FALSE
       /\ agent_outputs'["coordinator"].next_agent =
            Route(function_type, current_query(messages), agent_path,
                  agent_outputs).next_agent
       /\ \A a \in DOMAIN agent_outputs \ {"coordinator"} :
            agent_outputs'[a] = agent_outputs[a]
       /\ UNCHANGED <<messages, client_id, function_type, shared_memory>>
       /\ current_agent' = "coordinator"
       /\ final_response' # final_response
            => agent_outputs'["coordinator"].next_agent = "END"
       /\ agent_outputs'["coordinator"].next_agent # "END"
            => UNCHANGED final_response
     ]_vars

\* the coordinator has made a decision that was not END on a state that
\* held the records of two specialists, and a later one that was END
C21_Witness ==
  /\ pc = END
  /\ Len(agent_path) >= 4
  /\ agent_path[Len(agent_path)] = "coordinator"
  /\ Cardinality(DOMAIN agent_outputs \ {"coordinator"}) >= 2
  /\ final_response # None


\* ----------------------------------------------------------------------
\* C22  Synthesizer step 2 to step 3: the most relevant specialist's
\* output is returned verbatim only if it holds a response; when its
\* record in agent_outputs has no response, generate_final_response falls
\* back to the concatenation of the specialists' responses in path order
\* and returns no fixed placeholder text.
\* ----------------------------------------------------------------------

\* generate_final_response has run, and the most relevant specialist has
\* a record without a response
C22_RelevantSilent ==
  /\ pc = "returned"
  /\ find_most_relevant_agent(messages, agent_path) # None
  /\ find_most_relevant_agent(messages, agent_path)[1] \in DOMAIN agent_outputs
  /\ ~HasResponse(agent_outputs,
                  find_most_relevant_agent(messages, agent_path)[1])

C22_FallsBackToConcatenation ==
  C22_RelevantSilent =>
    /\ final_response # Some(Placeholder)
    /\ final_response = Some(CombineOutputs(agent_path, agent_outputs))


\* ----------------------------------------------------------------------
\* C23  Concatenation fallback: walking the specialists of agent_path in
\* order, a candidate response is dropped as a duplicate only when its
\* first 30 characters equal those of a previously accepted response; a
\* response containing "couldn't find" or "not found" is skipped and does
\* not count as accepted, so a later response with the same first 30
\* characters and no failure phrase is still included.  Accepted responses
\* are joined by one blank line in path order; if none is accepted but a
\* specialist ran, the last specialist's response is used.
\* ----------------------------------------------------------------------

\* the responses accepted along p[i..], acc being those accepted before
RECURSIVE C23_Accepted(_, _, _, _)
C23_Accepted(p, i, outputs, acc) ==
  IF i > Len(p) THEN acc
  ELSE IF ~HasResponse(outputs, p[i]) THEN C23_Accepted(p, i + 1, outputs, acc)
  ELSE
    LET r == outputs[p[i]].response[1]
        duplicate == \E k \in 1..Len(acc) : Prefix30(acc[k]) = Prefix30(r)
    IN  IF IsFailure(r) \/ duplicate
          THEN C23_Accepted(p, i + 1, outputs, acc)
          ELSE C23_Accepted(p, i + 1, outputs, Append(acc, r))

\* texts joined by a blank line
RECURSIVE C23_Join(_)
C23_Join(texts) ==
  IF texts = << >> THEN << >>
  ELSE IF Len(texts) = 1 THEN texts[1]
  ELSE texts[1] \o <<"\n\n">> \o C23_Join(Tail(texts))

C23_Expected ==
  LET p == NonCoordinator(agent_path)
      joined == C23_Join(C23_Accepted(p, 1, agent_outputs, << >>))
  IN  IF joined # << >> THEN joined
      ELSE IF p # << >> /\ HasResponse(agent_outputs, p[Len(p)])
        THEN agent_outputs[p[Len(p)]].response[1]
      ELSE GenericMessage

\* generate_final_response has run and found no record of a most relevant
\* specialist
C23_Combined ==
  /\ pc = "returned"
  /\ LET relevant == find_most_relevant_agent(messages, agent_path)
     IN  relevant = None \/ relevant[1] \notin DOMAIN agent_outputs

C23_ConcatenationFallback ==
  C23_Combined => final_response = Some(C23_Expected)


\* ----------------------------------------------------------------------
\* C24  Cold start is decided by the absence of specialist entries, not
\* by an empty path: on every state whose agent_path holds no
\* non-coordinator entry and whose function_type is in
\* FUNCTION_TYPE_ROUTING the coordinator routes to the mapped specialist
\* and not to the keyword classifier's result.
\* ----------------------------------------------------------------------

C24_ColdStartBySpecialists ==
  (/\ Decided
   /\ visited_agents(SeenPath) = {}
   /\ function_type \in DOMAIN FUNCTION_TYPE_ROUTING)
    => Decision = FUNCTION_TYPE_ROUTING[function_type]


\* ----------------------------------------------------------------------
\* C25  In every reachable state of a run from the fresh initial state
\* agent_path alternates coordinator and specialist entries, beginning
\* with "coordinator" (odd positions the coordinator, even positions a
\* specialist); at Terminal its last entry is "coordinator" and its
\* length is odd and at most 7.
\* ----------------------------------------------------------------------

C25_Alternation ==
  /\ \A i \in 1..Len(agent_path) :
       IF i % 2 = 1 THEN agent_path[i] = "coordinator"
                    ELSE agent_path[i] \in Specialists
  /\ Terminal =>
       /\ agent_path # << >>
       /\ agent_path[Len(agent_path)] = "coordinator"
       /\ Len(agent_path) % 2 = 1
       /\ Len(agent_path) <= 7

\* a run that ended after three specialists, and one that ended after one
C25_Witness ==
  /\ Terminal
  /\ Len(agent_path) = 7
  /\ agent_path[6] \in Specialists

C25_WitnessShort ==
  /\ Terminal
  /\ Len(agent_path) = 3


\* ----------------------------------------------------------------------
\* C26  The step budget is never what stops a run: from the fresh initial
\* state every run executes at most 7 nodes (at most 4 coordinator
\* decisions and 3 specialist invocations) before the coordinator chooses
\* END, so with recursion_limit 10 the budget-exhaustion error is
\* unreachable.
\* ----------------------------------------------------------------------

C26_SpecialistCalls == Len(NonCoordinator(agent_path))

C26_BudgetNeverStops ==
  /\ steps <= 7
  /\ steps < RecursionLimit
  /\ CoordinatorCalls <= 4
  /\ C26_SpecialistCalls <= 3
  /\ steps = CoordinatorCalls + C26_SpecialistCalls
  /\ ~C15_Exhausted
  /\ result # None =>
       /\ pc = END
       /\ "error" \notin DOMAIN result[1].agent_outputs

\* a run of seven nodes that returned its final state
C26_Witness ==
  /\ steps = 7
  /\ CoordinatorCalls = 4
  /\ C26_SpecialistCalls = 3
  /\ result # None
  /\ result[1].final_response = final_response
  /\ final_response # None


\* ----------------------------------------------------------------------
\* C27  In every reachable state of a run from the fresh initial state a
\* specialist name is a key of agent_outputs if and only if it occurs in
\* agent_path; hence the coordinator never routes to a specialist that
\* already has an output, the specialists' re-entry guard never fires, and
\* every step of a specialist adds exactly one entry to agent_path.
\* ----------------------------------------------------------------------

C27_OutputsMatchPath ==
  /\ \A a \in Specialists :
       a \in DOMAIN agent_outputs <=> a \in visited_agents(agent_path)
  /\ pc \in Specialists =>
       /\ ~AlreadyRan(pc, agent_outputs)
       /\ pc \notin visited_agents(agent_path)

C27_SpecialistStep == pc \in Specialists /\ steps' = steps + 1

C27_OutputsIffPath ==
  /\ []C27_OutputsMatchPath
  /\ [][C27_SpecialistStep =>
          /\ agent_path' = Append(agent_path, pc)
          /\ DOMAIN agent_outputs' = DOMAIN agent_outputs \cup {pc}]_vars

\* the third specialist of a run has just written its record
C27_Witness ==
  /\ Len(agent_path) = 6
  /\ current_agent = agent_path[6]
  /\ Cardinality(DOMAIN agent_outputs \cap Specialists) = 3
  /\ pc = "coordinator"


\* ----------------------------------------------------------------------
\* C28  The coordinator's first decision in a run is never END: with an
\* empty agent_path it names a registered specialist, so every run that
\* reaches Terminal has at least one specialist in agent_path and the
\* generic "could you provide more details" message is never the
\* final_response of a run.
\* ----------------------------------------------------------------------

C28_FirstDecision ==
  /\ (Decided /\ SeenPath = << >>) =>
       /\ Decision # "END"
       /\ Decision \in Specialists
       /\ pc = Decision
  /\ Terminal => visited_agents(agent_path) # {}
  /\ final_response # Some(GenericMessage)
  /\ result # None => result[1].final_response # Some(GenericMessage)

\* the default of the classifier made the first decision, for a query
\* without a keyword and a function type outside the table
C28_Witness ==
  /\ Decided
  /\ SeenPath = << >>
  /\ function_type \notin DOMAIN FUNCTION_TYPE_ROUTING
  /\ Query = {"opportunities"}
  /\ Decision = "client_profiler"

\* that run has ended with a specialist's answer
C28_WitnessEnded ==
  /\ Terminal
  /\ function_type \notin DOMAIN FUNCTION_TYPE_ROUTING
  /\ Query = {"opportunities"}
  /\ final_response = agent_outputs["client_profiler"].response


\* ----------------------------------------------------------------------
\* C29  In every run from the fresh initial state that ends with
\* next_agent = END, final_response is the response of one specialist
\* that occurs in agent_path, taken verbatim from agent_outputs: the most
\* relevant specialist is found and has an output, so the concatenation,
\* deduplication and failure-phrase filtering of generate_final_response
\* is never executed.
\* ----------------------------------------------------------------------

\* the texts that only the fallbacks of generate_final_response produce
C29_IsJoined(text) == \E i \in 1..Len(text) : text[i] = "\n\n"

C29_SingleVerbatim ==
  (Decided /\ Decision = "END") =>
    LET relevant == find_most_relevant_agent(messages, agent_path)
    IN  /\ relevant # None
        /\ relevant[1] \in visited_agents(agent_path)
        /\ HasResponse(agent_outputs, relevant[1])
        /\ final_response = agent_outputs[relevant[1]].response
        /\ \E a \in visited_agents(agent_path) :
             final_response = agent_outputs[a].response
        /\ final_response # Some(Placeholder)
        /\ final_response # Some(GenericMessage)
        /\ ~C29_IsJoined(final_response[1])

\* a run of three specialists, the second and third of which answered
\* with different texts, ended with the answer of the second because the
\* query names its topic
C29_Witness ==
  /\ Decided
  /\ Decision = "END"
  /\ Len(agent_path) = 7
  /\ final_response = agent_outputs[agent_path[4]].response
  /\ final_response # agent_outputs[agent_path[6]].response
  /\ final_response # agent_outputs[agent_path[2]].response


\* ----------------------------------------------------------------------
\* C30  Within a run from the fresh initial state the coordinator is only
\* ever called with an agent_path of even length (0, 2, 4 or 6), so the
\* cap test len(agent_path) >= 6 and a cap test len(agent_path) >= 5
\* choose END in exactly the same reachable states and produce the same
\* runs.
\* ----------------------------------------------------------------------

\* the coordinator is the node the graph runs next
C30_CoordinatorCalled == pc = "coordinator" /\ result = None

C30_CapAtFive(path) == Len(path) >= LoopCap - 1

C30_EvenLengths ==
  /\ C30_CoordinatorCalled =>
       /\ Len(agent_path) \in {0, 2, 4, 6}
       /\ CapReached(agent_path) <=> C30_CapAtFive(agent_path)
  /\ (Decided /\ Decision = "END" /\ C30_CapAtFive(SeenPath))
       => Len(SeenPath) = 6

\* the coordinator is called at the cap
C30_Witness ==
  /\ C30_CoordinatorCalled
  /\ Len(agent_path) = 6
  /\ CapReached(agent_path)

\* the coordinator is called right below both caps
C30_WitnessBelow ==
  /\ C30_CoordinatorCalled
  /\ Len(agent_path) = 4
  /\ ~C30_CapAtFive(agent_path)

====
